---- MODULE Spec2Model ----
(***************************************************************************)
(* Wordle feedback encoder, guess matcher, mask packing and game loop      *)
(* (src/src/lib.rs) and the frequency builder (src/corpus/src/main.rs).    *)
(*                                                                         *)
(* Words are sequences of bytes (integers 0..255); b'a' is 97.  A mask is  *)
(* a sequence of five Correctness tags.                                    *)
(***************************************************************************)
EXTENDS Integers, Sequences, FiniteSets, TLC

(***************************************************************************)
(* Bounds of the model.                                                    *)
(***************************************************************************)
\* number of distinct lowercase letters ('a', 'b', ...) words are drawn from
NumLetters == 2
\* number of leading byte positions that vary in the raw (unvalidated) words
RawVary == 2
\* number of times a guesser returns a word other than its previous one
MaxSwitches == 2
\* number of input files of the frequency builder
MaxFiles == 3

(***************************************************************************)
(* Program constants.                                                      *)
(***************************************************************************)
\* assert_eq!(answer.len(), 5), [Correctness; 5]
WordLen == 5
\* b'a'
ByteA == 97
\* (b'z' - b'a' + 1): length of the misplaced counter array
AlphabetLen == 26
\* for i in 1..=32
MaxRounds == 32

Correctness == {"Correct", "Misplaced", "Wrong"}

Positions == 1..WordLen

Masks == [Positions -> Correctness]

\* the all-Wrong array compute starts from
AllWrong == [i \in Positions |-> "Wrong"]

\* valid words: five lowercase letters
Letters == ByteA..(ByteA + NumLetters - 1)

Words == [Positions -> Letters]

\* (byte - b'a') as usize, with u8 wrap-around arithmetic
letter_index(byte) == (byte - ByteA) % 256

(***************************************************************************)
(* Correctness::compute                                                    *)
(***************************************************************************)
\* first pass: the misplaced counter of a letter index after all positions
RECURSIVE first_pass(_, _, _, _)
first_pass(answer, guess, i, misplaced) ==
    IF i > WordLen THEN misplaced
    ELSE IF answer[i] = guess[i] THEN first_pass(answer, guess, i + 1, misplaced)
    ELSE first_pass(answer, guess, i + 1,
            [misplaced EXCEPT ![letter_index(answer[i])] = @ + 1])

\* second pass: a Wrong position whose letter has a positive counter becomes
\* Misplaced and the counter is incremented (misplaced[..] += 1)
RECURSIVE second_pass(_, _, _, _)
second_pass(guess, i, correctness, misplaced) ==
    IF i > WordLen THEN correctness
    ELSE IF correctness[i] = "Wrong" /\ misplaced[letter_index(guess[i])] > 0
         THEN second_pass(guess, i + 1,
                [correctness EXCEPT ![i] = "Misplaced"],
                [misplaced EXCEPT ![letter_index(guess[i])] = @ + 1])
         ELSE second_pass(guess, i + 1, correctness, misplaced)

\* misplaced[(byte - b'a') as usize] panics: the subtraction overflows (a build
\* with overflow checks), or it wraps and the index is outside the array
index_panics(byte) ==
    \/ byte < ByteA
    \/ letter_index(byte) >= AlphabetLen

\* a variant that checks the bytes of every position
compute_panics_all_positions(answer, guess) ==
    \/ Len(answer) # WordLen
    \/ Len(guess) # WordLen
    \/ \E i \in Positions : index_panics(answer[i]) \/ index_panics(guess[i])

\* compute panics: a length assertion fails, or a counter is indexed by a byte
\* outside a-z.  The first loop indexes by answer[i] and the second by
\* guess[i], both only at the positions where the two words differ.
compute_panics(answer, guess) ==
    \/ Len(answer) # WordLen
    \/ Len(guess) # WordLen
    \/ \E i \in Positions :
          /\ answer[i] # guess[i]
          /\ index_panics(answer[i]) \/ index_panics(guess[i])

\* the outcome of a call: not made yet, a panic, or a returned value
NotRun == [state |-> "not run"]

Panic == [state |-> "panic"]

Returned(v) == [state |-> "returned", value |-> v]

compute(answer, guess) ==
    IF compute_panics(answer, guess) THEN Panic
    ELSE LET correctness == [i \in Positions |->
                                IF answer[i] = guess[i] THEN "Correct" ELSE "Wrong"]
             misplaced == first_pass(answer, guess, 1,
                                     [l \in 0..(AlphabetLen - 1) |-> 0])
         IN  Returned(second_pass(guess, 1, correctness, misplaced))


(***************************************************************************)
(* Guess::matches and Correctness::is_misplaced                            *)
(***************************************************************************)
\* the answer positions is_misplaced may take: holding the letter, not used
free_positions(letter, answer, used) ==
    {i \in Positions : answer[i] = letter /\ ~used[i]}

\* a variant that never looks at used[]
is_misplaced_ignoring_used(letter, answer, used) ==
    [found |-> \E i \in Positions : answer[i] = letter, used |-> used]

\* any() stops at the first such position and marks it used
is_misplaced(letter, answer, used) ==
    LET free == free_positions(letter, answer, used)
    IN  IF free = {} THEN [found |-> FALSE, used |-> used]
        ELSE LET first == CHOOSE i \in free : \A j \in free : i <= j
             IN  [found |-> TRUE, used |-> [used EXCEPT ![first] = TRUE]]

\* "check corrected letters": every equal position must be masked Correct and
\* every other position must not be
corrected_ok(rec, word) ==
    \A i \in Positions : (word[i] = rec.word[i]) <=> (rec.mask[i] = "Correct")

\* used[] after the first loop: the positions where the two words agree
corrected_used(rec, word) ==
    [i \in Positions |-> word[i] = rec.word[i]]

\* "check misplaced letters", from guess position i on
RECURSIVE misplaced_ok(_, _, _, _)
misplaced_ok(rec, word, i, used) ==
    IF i > WordLen THEN TRUE
    ELSE IF rec.mask[i] = "Correct" THEN misplaced_ok(rec, word, i + 1, used)
    ELSE LET r == is_misplaced(rec.word[i], word, used)
         IN  IF r.found # (rec.mask[i] = "Misplaced") THEN FALSE
             ELSE misplaced_ok(rec, word, i + 1, r.used)

\* matches panics on a word that is not 5 bytes long
matches_panics(rec, word) == Len(word) # WordLen \/ Len(rec.word) # WordLen

matches(rec, word) ==
    /\ corrected_ok(rec, word)
    /\ misplaced_ok(rec, word, 1, corrected_used(rec, word))

\* struct Guess
Guess(word, mask) == [word |-> word, mask |-> mask]

(***************************************************************************)
(* impl From<[Correctness; 5]> for PacketCorrectness, and                   *)
(* impl From<PacketCorrectness> for u8.  The arithmetic is u8 arithmetic:  *)
(* a build with overflow checks panics on overflow, one without wraps.     *)
(***************************************************************************)
\* a variant that gives Misplaced and Wrong the same digit
correctness_digit_merged(c) ==
    IF c = "Correct" THEN 0 ELSE 1

\* match c { Correct => 0, Misplaced => 1, Wrong => 2 }
correctness_digit(c) ==
    CASE c = "Correct" -> 0
      [] c = "Misplaced" -> 1
      [] c = "Wrong" -> 2

\* one step of the fold, acc * 3 + digit, in u8 arithmetic: the wrapped value
\* and whether the multiplication or the addition overflowed
fold_step(acc, c) ==
    LET product == acc * 3
        sum == (product % 256) + correctness_digit(c)
    IN  [value |-> sum % 256, overflowed |-> product > 255 \/ sum > 255]

\* correct.iter().fold(0, ..) from slot i on
RECURSIVE pack_fold(_, _, _)
pack_fold(correct, i, acc) ==
    IF i > WordLen THEN acc
    ELSE LET step == fold_step(acc.value, correct[i])
         IN  pack_fold(correct, i + 1,
                [value |-> step.value,
                 overflowed |-> acc.overflowed \/ step.overflowed])

\* PacketCorrectness::from(correct): the NonZeroU8 it holds, or a panic
packet_from(correct, overflow_checks) ==
    LET packed == pack_fold(correct, 1, [value |-> 0, overflowed |-> FALSE])
        overflowed == packed.overflowed \/ packed.value + 1 > 255
        inner == (packed.value + 1) % 256
    IN  IF overflow_checks /\ overflowed THEN Panic
        ELSE IF inner = 0 THEN Panic      \* NonZeroU8::new(0).unwrap()
        ELSE Returned(inner)

\* u8::from(this): this.0.get() - 1
u8_from(inner) == inner - 1

(***************************************************************************)
(* State                                                                   *)
(***************************************************************************)
VARIABLES
    answer,          \* encoder, game: the answer (the candidate of matches)
    guess,           \* encoder, game: the guessed word (the last one returned)
    computed,        \* encoder: the outcome of compute(answer, guess)
    allowed,         \* encoder: the masks m with Guess{guess, m}.matches(answer)
    correct,         \* packing: the mask handed to PacketCorrectness::from
    overflow_checks, \* packing: whether the build checks integer overflow
    packet,          \* packing: the outcome of PacketCorrectness::from
    code,            \* packing: the outcome of u8::from(packet)
    history,         \* game: the Vec<Guess> of play
    round,           \* game: the loop variable i of play
    result,          \* game: the outcome of play
    guess_calls,     \* game: the number of calls of guesser.guess
    finish_calls,    \* game: the arguments of the calls of guesser.finish
    switches,        \* game: how often the guesser changed its word
    files,           \* builder: the input files, each a sequence of lines
    segments,        \* builder: the parallel reduce, left to right: items not
                     \* yet mapped and accumulated maps
    output           \* builder: the lines printed

encVars == <<answer, guess, computed, allowed>>

packVars == <<correct, overflow_checks, packet, code>>

playVars == <<history, round, result, guess_calls, finish_calls, switches>>

corpusVars == <<files, segments, output>>

vars == <<encVars, packVars, playVars, corpusVars>>

\* the variables of the encoder when another component runs
EncoderIdle ==
    /\ computed = NotRun
    /\ allowed = NotRun

PackIdle ==
    /\ correct = AllWrong
    /\ overflow_checks = FALSE
    /\ packet = NotRun
    /\ code = NotRun

PlayIdle ==
    /\ history = <<>>
    /\ round = 1
    /\ result = NotRun
    /\ guess_calls = 0
    /\ finish_calls = <<>>
    /\ switches = 0

CorpusIdle ==
    /\ files = <<>>
    /\ segments = <<>>
    /\ output = NotRun

(***************************************************************************)
(* Encoder: compute and matches applied to a pair of valid words           *)
(***************************************************************************)
InitEncoder ==
    /\ answer \in Words
    /\ guess \in Words
    /\ EncoderIdle
    /\ PackIdle
    /\ PlayIdle
    /\ CorpusIdle

DoCompute ==
    /\ computed = NotRun
    /\ computed' = compute(answer, guess)
    /\ UNCHANGED <<answer, guess, allowed, packVars, playVars, corpusVars>>

DoMatches ==
    /\ allowed = NotRun
    /\ allowed' = IF matches_panics(Guess(guess, AllWrong), answer) THEN Panic
                  ELSE Returned({m \in Masks : matches(Guess(guess, m), answer)})
    /\ UNCHANGED <<answer, guess, computed, packVars, playVars, corpusVars>>

NextEncoder == DoCompute \/ DoMatches

SpecEncoder == InitEncoder /\ [][NextEncoder]_vars


(***************************************************************************)
(* Encoder on unvalidated input: compute applied to byte strings of 4 to 6 *)
(* bytes, some outside a-z                                                 *)
(***************************************************************************)
\* '`', 'a', 'z', '{': the bytes on both sides of the ends of a-z
RawBytes == {96, 97, 122, 123}

RawLens == {WordLen - 1, WordLen, WordLen + 1}

\* byte strings whose first RawVary bytes vary and whose other bytes are 'a'
RawWords ==
    UNION {{[i \in 1..n |-> IF i <= RawVary THEN p[i] ELSE ByteA] :
                p \in [1..RawVary -> RawBytes]} : n \in RawLens}

InitRaw ==
    /\ answer \in RawWords
    /\ guess \in RawWords
    /\ EncoderIdle
    /\ PackIdle
    /\ PlayIdle
    /\ CorpusIdle

NextRaw == DoCompute

SpecRaw == InitRaw /\ [][NextRaw]_vars

(***************************************************************************)
(* Packing: a mask is packed and the packet turned into a u8               *)
(***************************************************************************)
InitPack ==
    /\ answer = AllWrong
    /\ guess = AllWrong
    /\ EncoderIdle
    /\ correct \in Masks
    /\ overflow_checks \in BOOLEAN
    /\ packet = NotRun
    /\ code = NotRun
    /\ PlayIdle
    /\ CorpusIdle

DoPack ==
    /\ packet = NotRun
    /\ packet' = packet_from(correct, overflow_checks)
    /\ UNCHANGED <<encVars, correct, overflow_checks, code, playVars, corpusVars>>

DoIntoU8 ==
    /\ packet.state = "returned"
    /\ code = NotRun
    /\ code' = Returned(u8_from(packet.value))
    /\ UNCHANGED <<encVars, correct, overflow_checks, packet, playVars, corpusVars>>

NextPack == DoPack \/ DoIntoU8

SpecPack == InitPack /\ [][NextPack]_vars

(***************************************************************************)
(* Wordle::play, one loop iteration per step.  The guesser is any          *)
(* implementation of the Guesser trait: each call may return any string.   *)
(***************************************************************************)
\* Wordle.dictionary: "aabba", "bbbbb"
Dictionary == {<<97, 97, 98, 98, 97>>, <<98, 98, 98, 98, 98>>}

\* the answers played: the dictionary words and "aaaab", which is not one
Answers == Dictionary \cup {<<97, 97, 97, 97, 98>>}

\* what a guesser returns: the above, "babab" and the 4-byte "baaa"
GuessStrings == Answers \cup {<<98, 97, 98, 97, 98>>, <<98, 97, 97, 97>>}

\* Option<usize>
Some(n) == [some |-> TRUE, value |-> n]

None == [some |-> FALSE]

\* the panic of assert!(self.dictionary.contains(&*guess), "guess '{}' is ..")
PanicNotInDictionary(word) == [state |-> "panic", word |-> word]

\* a variant without the dictionary check
contains_anything(dictionary, word) == TRUE

\* self.dictionary.contains(&*guess)
contains(dictionary, word) == word \in dictionary

\* a variant that runs one more iteration
more_rounds_off_by_one(n) == n < MaxRounds + 1

\* whether the loop for i in 1..=32 has an iteration after this one
more_rounds(n) == n < MaxRounds

\* a variant that reports the number of guesses before the winning one
finish_one_less(calls, guesses) == Append(calls, guesses - 1)

\* guesser.finish(i), recorded
finish(calls, guesses) == Append(calls, guesses)

InitPlay ==
    /\ answer \in Answers
    /\ guess = <<>>
    /\ EncoderIdle
    /\ PackIdle
    /\ PlayIdle
    /\ CorpusIdle

\* guesser.guess(&history) returns word g: the call is counted, and a word
\* other than the previous one uses up one of the guesser's switches
GuesserReturns(g) ==
    /\ result = NotRun
    /\ guess_calls > 0 /\ g # guess => switches < MaxSwitches
    /\ guess' = g
    /\ guess_calls' = guess_calls + 1
    /\ switches' = IF guess_calls > 0 /\ g # guess THEN switches + 1 ELSE switches

\* if guess == answer { guesser.finish(i); return Some(i); }
RoundWins ==
    \E g \in GuessStrings :
        /\ GuesserReturns(g)
        /\ g = answer
        /\ finish_calls' = finish(finish_calls, round)
        /\ result' = Returned(Some(round))
        /\ UNCHANGED <<answer, computed, allowed, packVars, history, round, corpusVars>>

\* the assertion fails: the guess is neither the answer nor a dictionary word
RoundPanics ==
    \E g \in GuessStrings :
        /\ GuesserReturns(g)
        /\ g # answer
        /\ ~contains(Dictionary, g)
        /\ result' = PanicNotInDictionary(g)
        /\ UNCHANGED <<answer, computed, allowed, packVars, history, round,
                       finish_calls, corpusVars>>

\* a legal guess: its mask is computed and the record pushed; after the
\* iteration with i = 32 the loop ends and play returns None
RoundContinues ==
    \E g \in GuessStrings :
        /\ GuesserReturns(g)
        /\ g # answer
        /\ contains(Dictionary, g)
        /\ LET correctness == compute(answer, g)
           IN  IF correctness = Panic
               THEN /\ result' = Panic
                    /\ UNCHANGED <<history, round>>
               ELSE /\ history' = Append(history, Guess(g, correctness.value))
                    /\ IF more_rounds(round)
                       THEN round' = round + 1 /\ result' = result
                       ELSE round' = round /\ result' = Returned(None)
        /\ UNCHANGED <<answer, computed, allowed, packVars, finish_calls, corpusVars>>

NextPlay == RoundWins \/ RoundPanics \/ RoundContinues

SpecPlay == InitPlay /\ [][NextPlay]_vars

(***************************************************************************)
(* The frequency builder (corpus main).  A line is its tab-separated       *)
(* parts: the token and the fields, each field its comma-separated         *)
(* columns; everything is bytes.                                           *)
(***************************************************************************)
\* DICTIONARY.lines(): "bbbbb", "aabba"
BaseDictionary == <<<<98, 98, 98, 98, 98>>, <<97, 97, 98, 98, 97>>>>

BaseWords == {BaseDictionary[k] : k \in 1..Len(BaseDictionary)}

\* a field "1990,<count>,1"
Field(count) == <<<<49, 57, 57, 48>>, count, <<49>>>>

Line(token, counts) ==
    [token |-> token, fields |-> [k \in 1..Len(counts) |-> Field(counts[k])]]

\* "aabba<TAB>..,3,..", "AABBA_NOUN<TAB>..,12,..<TAB>..,07,.."
FileA ==
    <<Line(<<97, 97, 98, 98, 97>>, <<<<51>>>>),
      Line(<<65, 65, 66, 66, 65, 95, 78, 79, 85, 78>>, <<<<49, 50>>, <<48, 55>>>>)>>

\* "bbbbb" with count 0, "zzzzz" with 7, "aab" with 5
FileB ==
    <<Line(<<98, 98, 98, 98, 98>>, <<<<48>>>>),
      Line(<<122, 122, 122, 122, 122>>, <<<<55>>>>),
      Line(<<97, 97, 98>>, <<<<53>>>>)>>

\* "bbbbb" with counts 2 and 40, "aab1a" with 9
FileC ==
    <<Line(<<98, 98, 98, 98, 98>>, <<<<50>>, <<52, 48>>>>),
      Line(<<97, 97, 98, 49, 97>>, <<<<57>>>>)>>

\* an empty file
FileD == <<>>

FileUniverse == {FileA, FileB, FileC, FileD}

\* word.splitn_mut(2, |&c| c == b'_').next(): the bytes before the first '_'
before_underscore(token) ==
    LET at == {k \in 1..Len(token) : token[k] = 95}
    IN  IF at = {} THEN token
        ELSE SubSeq(token, 1, (CHOOSE k \in at : \A j \in at : k <= j) - 1)

\* matches!(c, b'a'..=b'z' | b'A'..=b'Z')
is_alphabetic(c) == c \in 97..122 \/ c \in 65..90

\* make_ascii_lowercase
make_ascii_lowercase(word) ==
    [k \in 1..Len(word) |-> IF word[k] \in 65..90 THEN word[k] + 32 ELSE word[k]]

\* the decimal value of a count column, read from its last digit
RECURSIVE parse_count(_, _, _, _)
parse_count(count, k, value, dec) ==
    IF k = 0 THEN value
    ELSE parse_count(count, k - 1, value + (count[k] - 48) * dec, dec * 10)

\* fields.map(..).sum(): columns.nth(1) of every field, parsed and summed
RECURSIVE sum_fields(_, _)
sum_fields(fields, k) ==
    IF k > Len(fields) THEN 0
    ELSE parse_count(fields[k][2], Len(fields[k][2]), 0, 1)
            + sum_fields(fields, k + 1)

\* the body of the read loop for one line
count_line(words, line) ==
    LET word == before_underscore(line.token)
    IN  IF Len(word) # 5 THEN words
        ELSE IF ~\A k \in 1..Len(word) : is_alphabetic(word[k]) THEN words
        ELSE LET lower == make_ascii_lowercase(word)
             IN  IF lower \in DOMAIN words
                 THEN [words EXCEPT ![lower] = @ + sum_fields(line.fields, 1)]
                 ELSE words

\* the map closure: the counts of one file, every dictionary word from 0
RECURSIVE count_lines(_, _, _)
count_lines(words, file, k) ==
    IF k > Len(file) THEN words
    ELSE count_lines(count_line(words, file[k]), file, k + 1)

count_file(file) == count_lines([w \in BaseWords |-> 0], file, 1)

\* HashMap::new
EmptyMap == [w \in {} |-> 0]

\* a variant that inserts the count of map2 instead of adding it
merge_overwriting(map1, map2) ==
    [w \in DOMAIN map1 \cup DOMAIN map2 |->
        IF w \in DOMAIN map2 THEN map2[w] ELSE map1[w]]

\* the reduce closure: *map1.entry(word).or_insert(0) += count
merge(map1, map2) ==
    [w \in DOMAIN map1 \cup DOMAIN map2 |->
        (IF w \in DOMAIN map1 THEN map1[w] ELSE 0)
            + (IF w \in DOMAIN map2 THEN map2[w] ELSE 0)]

\* the print loop: a line per dictionary word, 1 for a missing or zero count
print_lines(words) ==
    [k \in 1..Len(BaseDictionary) |->
        LET word == BaseDictionary[k]
            count == IF word \in DOMAIN words THEN words[word] ELSE 0
        IN  <<word, IF count = 0 THEN 1 ELSE count>>]

Item(file) == [kind |-> "item", file |-> file]

Acc(words) == [kind |-> "acc", words |-> words]

\* s without its element k
Without(s, k) == SubSeq(s, 1, k - 1) \o SubSeq(s, k + 1, Len(s))

InitCorpus ==
    /\ answer = AllWrong
    /\ guess = AllWrong
    /\ EncoderIdle
    /\ PackIdle
    /\ PlayIdle
    /\ files \in UNION {[1..n -> FileUniverse] : n \in 0..MaxFiles}
    /\ segments = [k \in 1..Len(files) |-> Item(k)]
    /\ output = NotRun

\* a worker starts a leaf of the reduce at an item: identity(), then the
\* item's map merged into it
LeafStarts ==
    \E k \in 1..Len(segments) :
        /\ segments[k].kind = "item"
        /\ segments' = [segments EXCEPT
                ![k] = Acc(merge(EmptyMap, count_file(files[segments[k].file])))]
        /\ UNCHANGED <<encVars, packVars, playVars, files, output>>

\* a worker folds the next item of its leaf into its accumulator
LeafFolds ==
    \E k \in 1..(Len(segments) - 1) :
        /\ segments[k].kind = "acc"
        /\ segments[k + 1].kind = "item"
        /\ segments' = Without(
                [segments EXCEPT ![k] = Acc(merge(segments[k].words,
                        count_file(files[segments[k + 1].file])))], k + 1)
        /\ UNCHANGED <<encVars, packVars, playVars, files, output>>

\* two neighbouring results are reduced, the left one first
Joins ==
    \E k \in 1..(Len(segments) - 1) :
        /\ segments[k].kind = "acc"
        /\ segments[k + 1].kind = "acc"
        /\ segments' = Without(
                [segments EXCEPT ![k] = Acc(merge(segments[k].words,
                        segments[k + 1].words))], k + 1)
        /\ UNCHANGED <<encVars, packVars, playVars, files, output>>

\* the reduce is over (identity() when there was no file): main prints
Prints ==
    /\ output = NotRun
    /\ \/ segments = <<>>
       \/ Len(segments) = 1 /\ segments[1].kind = "acc"
    /\ output' = Returned(print_lines(
            IF segments = <<>> THEN EmptyMap ELSE segments[1].words))
    /\ UNCHANGED <<encVars, packVars, playVars, files, segments>>

NextCorpus == LeafStarts \/ LeafFolds \/ Joins \/ Prints

SpecCorpus == InitCorpus /\ [][NextCorpus]_vars

(***************************************************************************)
(* The two-pass algorithm as section 4.1 of the specification words it:    *)
(* the second pass decrements the counter of a letter it marks Misplaced.  *)
(***************************************************************************)
RefCounts(a, g) ==
    [l \in 0..255 |-> Cardinality({i \in Positions : a[i] # g[i] /\ a[i] = l})]

RECURSIVE RefSecondPass(_, _, _, _)
RefSecondPass(g, i, mask, counts) ==
    IF i > WordLen THEN mask
    ELSE IF mask[i] # "Correct" /\ counts[g[i]] > 0
         THEN RefSecondPass(g, i + 1, [mask EXCEPT ![i] = "Misplaced"],
                            [counts EXCEPT ![g[i]] = @ - 1])
         ELSE RefSecondPass(g, i + 1, mask, counts)

RefCompute(a, g) ==
    RefSecondPass(g, 1,
        [i \in Positions |-> IF a[i] = g[i] THEN "Correct" ELSE "Wrong"],
        RefCounts(a, g))

(***************************************************************************)
(* Claims about the encoder and the matcher (SpecEncoder)                  *)
(***************************************************************************)
\* guess positions holding letter l that the mask marks Misplaced
MisplacedMarks(l, mask) ==
    Cardinality({i \in Positions : guess[i] = l /\ mask[i] = "Misplaced"})

\* answer positions holding letter l that the guess does not match
UnmatchedInAnswer(l) ==
    Cardinality({i \in Positions : answer[i] = l /\ guess[i] # answer[i]})

\* C1: for every letter, the number of guess positions holding it that compute
\* marks Misplaced never exceeds the number of answer positions holding it
\* that the guess does not match.
C1_MisplacedWithinUnmatched ==
    computed.state = "returned" =>
        \A l \in Letters :
            MisplacedMarks(l, computed.value) <= UnmatchedInAnswer(l)

\* C2: Guess{word, mask}.matches(candidate) is true exactly for the mask that
\* compute(candidate, word) returns.
C2_MatchesIffCompute ==
    (computed.state = "returned" /\ allowed.state = "returned") =>
        allowed.value = {computed.value}

\* C9: Guess{word, mask}.matches(candidate) is true exactly for the mask the
\* two-pass algorithm of section 4.1 yields for (candidate, word).
C9_MatchesIffReference ==
    allowed.state = "returned" => allowed.value = {RefCompute(answer, guess)}

\* C9 witness: matches has run on a pair where a guess letter occurs in the
\* candidate but its occurrences are used up, next to a Misplaced letter.
C9_Witness ==
    /\ allowed.state = "returned"
    /\ \E i, j \in Positions :
          /\ RefCompute(answer, guess)[i] = "Wrong"
          /\ \E k \in Positions : answer[k] = guess[i]
          /\ RefCompute(answer, guess)[j] = "Misplaced"
    /\ RefCompute(answer, guess) \in allowed.value


(***************************************************************************)
(* Claims about the encoder on unvalidated input (SpecRaw)                 *)
(***************************************************************************)
Lowercase(byte) == byte \in 97..122

BadLength == Len(answer) # 5 \/ Len(guess) # 5

CodeOf(m) ==
    LET p == packet_from(m, overflow_checks)
    IN  IF p.state = "returned" THEN u8_from(p.value) ELSE -1

\* C8: packing never panics, the intermediate packed + 1 is a non-zero u8,
\* the code lies in 0..242, no other mask has the code of the packed mask,
\* and the 243 masks produce every code of 0..242.
C8_PackIsBijection ==
    /\ packet # NotRun =>
          /\ packet.state = "returned"
          /\ packet.value \in 1..255
    /\ code # NotRun =>
          /\ code.value \in 0..242
          /\ \A m \in Masks : CodeOf(m) = code.value => m = correct
          /\ {CodeOf(m) : m \in Masks} = 0..242

\* C8 witness: the all-Wrong mask was packed to the largest code, 242, its
\* packet holding 243, in a build with overflow checks.
C8_Witness ==
    /\ correct = AllWrong
    /\ overflow_checks
    /\ packet = Returned(243)
    /\ code = Returned(242)


(***************************************************************************)
(* Claims about the game loop (SpecPlay)                                   *)
(***************************************************************************)
Playing == result = NotRun

Won == result.state = "returned" /\ result.value.some

Exhausted == result = Returned(None)

Aborted == result.state = "panic"

\* the words of the universe that every record of history h allows
CandidateSet(h) ==
    {w \in Dictionary \cup {answer} : \A k \in 1..Len(h) : matches(h[k], w)}

\* C3: every record of history matches the answer, so the candidate set
\* filtered by matches holds the answer and is no larger than it was before
\* the last record was appended.
C3_HistoryMatchesAnswer ==
    /\ \A k \in 1..Len(history) : matches(history[k], answer)
    /\ answer \in CandidateSet(history)
    /\ history # <<>> =>
          CandidateSet(history) \subseteq
              CandidateSet(SubSeq(history, 1, Len(history) - 1))

\* C4: guess is called at most 32 times; while the loop runs fewer than 32
\* calls were made; Some(r) is returned at the r-th call, the first whose
\* word is the answer, 1 <= r <= 32; None is returned exactly when 32
\* guesses were made and none was the answer; play fails only on a guess
\* that is neither the answer nor a dictionary word.
C4_ReturnsWithin32Guesses ==
    /\ guess_calls <= 32
    /\ Playing => guess_calls < 32 /\ Len(history) = guess_calls
    /\ Won =>
          /\ result.value.value = guess_calls
          /\ guess_calls \in 1..32
          /\ guess = answer
          /\ Len(history) = guess_calls - 1
    /\ \A k \in 1..Len(history) : history[k].word # answer
    /\ Exhausted <=> Len(history) = 32
    /\ Exhausted => guess_calls = 32
    /\ Aborted => guess # answer /\ guess \notin Dictionary

\* C4 witness: 32 legal guesses of two different words were made, none the
\* answer, and play returned None.
C4_Witness ==
    /\ Exhausted
    /\ guess_calls = 32
    /\ history[1].word # history[32].word

\* C5: a guess that is neither the answer nor a dictionary word makes play
\* panic naming the word, with no record appended for it and finish not
\* called; after the panic nothing is called or returned; a guess equal to
\* the answer wins whether or not the answer is a dictionary word.
C5_IllegalGuessAborts ==
    /\ []((guess_calls > 0 /\ guess # answer /\ guess \notin Dictionary) =>
            /\ result = PanicNotInDictionary(guess)
            /\ Len(history) = guess_calls - 1
            /\ \A k \in 1..Len(history) : history[k].word # guess
            /\ finish_calls = <<>>)
    /\ []((guess_calls > 0 /\ guess = answer) =>
            result = Returned(Some(guess_calls)))
    /\ [][Aborted => UNCHANGED <<result, guess_calls, finish_calls, history>>]_vars

\* C5 witness: after two legal guesses a word outside the dictionary was
\* returned and play panicked on it.
C5_Witness ==
    /\ Aborted
    /\ result.word = guess
    /\ guess \notin Dictionary
    /\ Len(history) = 2

\* C6: finish is called exactly once, with r, when play returns Some(r) after
\* the r-th guess call; it is not called while playing, on None or on a
\* panic; the call of finish follows the winning guess call and no guess
\* call follows it.
C6_FinishOnceOnWin ==
    /\ [](Won => finish_calls = <<result.value.value>>
                 /\ result.value.value = guess_calls)
    /\ [](~Won => finish_calls = <<>>)
    /\ [][finish_calls' # finish_calls =>
            guess_calls' = guess_calls + 1 /\ guess' = answer]_vars
    /\ [][finish_calls # <<>> =>
            guess_calls' = guess_calls /\ finish_calls' = finish_calls]_vars

\* C6 witness: the third guess was the answer, a word outside the
\* dictionary, and finish was called once with 3.
C6_Witness ==
    /\ Won
    /\ result = Returned(Some(3))
    /\ finish_calls = <<3>>
    /\ answer \notin Dictionary


(***************************************************************************)
(* Claims about the frequency builder (SpecCorpus)                         *)
(***************************************************************************)
\* the count a line contributes to dictionary word w
LineCountFor(w, line) ==
    LET token == before_underscore(line.token)
    IN  IF Len(token) = 5 /\ make_ascii_lowercase(token) = w
        THEN sum_fields(line.fields, 1) ELSE 0

RECURSIVE FileCountFor(_, _, _)
FileCountFor(w, file, k) ==
    IF k > Len(file) THEN 0
    ELSE LineCountFor(w, file[k]) + FileCountFor(w, file, k + 1)

\* the sum over all files of the counts parsed for w
RECURSIVE TotalCountFor(_, _)
TotalCountFor(w, k) ==
    IF k > Len(files) THEN 0
    ELSE FileCountFor(w, files[k], 1) + TotalCountFor(w, k + 1)

\* C10: however the reduce grouped the per-file maps, the output has one line
\* per base-dictionary word, in the dictionary's order, with the sum over all
\* files of the word's counts, or 1 when that sum is zero.
C10_OutputIsSumOrOne ==
    output # NotRun =>
        /\ output.state = "returned"
        /\ Len(output.value) = Len(BaseDictionary)
        /\ \A k \in 1..Len(BaseDictionary) :
              LET total == TotalCountFor(BaseDictionary[k], 1)
              IN  output.value[k] =
                    <<BaseDictionary[k], IF total = 0 THEN 1 ELSE total>>

\* C10 witness: three files were reduced and printed, one word summed over
\* two files and lines (3 + 12 + 7 twice), the other counted 0 and printed 1.
C10_Witness ==
    /\ files = <<FileA, FileB, FileA>>
    /\ output = Returned(<<<<BaseDictionary[1], 1>>, <<BaseDictionary[2], 44>>>>)

====
